---- MODULE Spec2Model ----
(***************************************************************************)
(* Verification model of the Small-projects repository.                    *)
(*                                                                         *)
(* Part 1: the virtual library (src/virtual library/virtual_library.js):   *)
(* the in-memory catalog of books and users with addBook, borrowBook,      *)
(* returnBook and removeBook, the overdue computation, the queries         *)
(* searchBooksBy, getTopRatedBooks, getMostPopularBooks and recommendBooks *)
(* and the console output of each call.                                    *)
(*   Spec      the modifying calls, made on days around a due date;        *)
(*   QuerySpec the modifying calls and the queries, made on one day;       *)
(*   ShelfSpec borrows, returns, recommendBooks and the overdue reports on *)
(*             a catalog with a shelf of seven Fantasy books.              *)
(*   CommandSpec the command lines typed at the prompt (processCommand).   *)
(* Part 2: Hangman (src/Hangman/Hangman.js), HangmanSpec.                  *)
(* Part 3: the word scramble (src/unnamed/part_001), ScrambleSpec.         *)
(* Part 4: the calculator (src/unnamed/part_000), CalculatorSpec.          *)
(* Each program runs alone: under a specification the variables of the     *)
(* other programs keep the value they start with.                          *)
(*                                                                         *)
(* Conventions                                                             *)
(*   - a JS Date is modelled by its local calendar day (an integer); the   *)
(*     instant of a local midnight is counted in hours (MidnightHours), so *)
(*     that the millisecond arithmetic of checkOverdueStatus is computed   *)
(*     as the code computes it, daylight-saving transitions included;      *)
(*   - ratings are counted in tenths (4.5 is 45);                          *)
(*   - a missing (undefined) or empty string field is "" (the code tests   *)
(*     both with !x); a rating or publicationYear passed to addBook is a   *)
(*     value with its typeof, so that a missing one and a zero differ.     *)
(***************************************************************************)
EXTENDS Integers, Sequences, FiniteSets, TLC

VARIABLES
    libraryBooks,   \* Array<Book>, in insertion order
    libraryUsers,   \* Array<User>, in insertion order
    today,          \* the local calendar day new Date() falls on
    tzShift,        \* hours the local clock is set back on DstDay (0: no transition)
    console,        \* what the last call printed with console.log
    borrowsEver,    \* history: successful borrowBook calls per book id
    hangman,        \* the globals of Hangman.js, its pending timeouts and alerts
    scramble,       \* the globals of the word scramble, its intervals and alerts
    calculator      \* the calculator's calculation string, its display and its storage

vars == <<libraryBooks, libraryUsers, today, tzShift, console, borrowsEver,
          hangman, scramble, calculator>>

\* the state of the library, and the state of the three browser pages
libraryVars == <<libraryBooks, libraryUsers, today, tzShift, console, borrowsEver>>
pageVars == <<hangman, scramble, calculator>>

\* a script that is not running has no state
NotLoaded == "not loaded"
NoPageLoaded ==
    /\ hangman = NotLoaded
    /\ scramble = NotLoaded
    /\ calculator = NotLoaded

----------------------------------------------------------------------------
(* Bounds of the exploration *)

\* the clock reaches the days 0 and LoanDays .. LoanDays + MaxLate
MaxLate == 1
\* at most this many successful borrows in a run
MaxBorrows == 2

(* Program constants *)

\* calculateDueDate: dueDate.setDate(borrowDate.getDate() + 14)
LoanDays == 14
\* returnBook: penalty = daysOverdue * 5
PenaltyPerDay == 5
\* checkOverdueStatus: 1000 * 60 * 60 * 24 milliseconds, counted in hours
HoursPerDay == 24

----------------------------------------------------------------------------
(* Inputs *)

\* the days on which calls are made
CallDays == {0} \cup (LoanDays .. (LoanDays + MaxLate))

\* the first day whose local midnight falls after a daylight-saving
\* transition of the local time zone: placed so that a loan taken on day 0 is
\* due on the day before it
DstDay == LoanDays + 1

\* the transition, in hours the local clock is set back: 0 (a zone without
\* daylight saving) or 1 (a 25-hour day). A clock set forward (-1, a 23-hour
\* day) gives the same comparisons and, through Math.ceil, the same
\* daysOverdue as 0, and is left out.
TzShifts == {0, 1}

\* user names passed to the operations: a registered name, a registered name
\* in another case, an unknown name
UserNames == {"John Doe", "jane smith", "Nobody"}

\* book ids passed to the operations: an initial book and an id that is not
\* in the initial catalog
BookIds == {"B001", "B009"}

Number(n) == [type |-> "number", tenths |-> n]
NotANumber == [type |-> "undefined", tenths |-> 0]

\* NaN, a value of type number
NaN == [type |-> "number", nan |-> TRUE]
IsNaN(value) == "nan" \in DOMAIN value

\* a publicationYear passed to addBook: a number, or undefined (missing)
Year(y) == [type |-> "number", value |-> y]
NoYear == [type |-> "undefined", value |-> 0]

\* books passed to addBook
Candidates ==
    { [id |-> "B001", title |-> "The Great Adventure", author |-> "Alice Wonderland",
       genre |-> "Fantasy", rating |-> Number(45), publicationYear |-> Year(2005)],
      [id |-> "B009", title |-> "X", author |-> "Y",
       genre |-> "Fantasy", rating |-> Number(40), publicationYear |-> Year(2000)],
      [id |-> "B009", title |-> "", author |-> "Y",
       genre |-> "Fantasy", rating |-> Number(40), publicationYear |-> Year(2000)],
      [id |-> "B009", title |-> "X", author |-> "Y",
       genre |-> "Fantasy", rating |-> NotANumber, publicationYear |-> Year(2000)] }

----------------------------------------------------------------------------
(* Helper functions *)

\* String.prototype.toLowerCase on the names, genres, authors and search
\* parameters in use
ToLowerCase(s) ==
    CASE s = "John Doe"    -> "john doe"
      [] s = "Jane Smith"  -> "jane smith"
      [] s = "Peter Jones" -> "peter jones"
      [] s = "Nobody"      -> "nobody"
      [] s = "Fantasy"     -> "fantasy"
      [] s = "Technology"  -> "technology"
      [] s = "Mystery"     -> "mystery"
      [] s = "Sci-Fi"      -> "sci-fi"
      [] s = "History"     -> "history"
      [] s = "Alice Wonderland" -> "alice wonderland"
      [] s = "Bob Builder"      -> "bob builder"
      [] s = "Charlie Chaplin"  -> "charlie chaplin"
      [] s = "David Detective"  -> "david detective"
      [] s = "Eve Historian"    -> "eve historian"
      [] s = "W"           -> "w"
      [] s = "Y"           -> "y"
      [] s = "Rating"      -> "rating"
      [] s = "Alice"       -> "alice"
      [] OTHER             -> s

\* Array.prototype.find / findIndex, given the indexes (1-based) of the
\* elements that satisfy the predicate: the first of them, 0 when there is none
FirstIndex(matching) ==
    IF matching = {} THEN 0
    ELSE CHOOSE i \in matching : \A j \in matching : i <= j

\* Array.prototype.splice(index, 1)
Splice1(seq, i) == SubSeq(seq, 1, i - 1) \o SubSeq(seq, i + 1, Len(seq))

\* findBookById: index of the first book with that id, 0 for undefined
FindBookById(bookId) ==
    FirstIndex({ b \in 1..Len(libraryBooks) : libraryBooks[b].id = bookId })

\* mutant: the predicate tests the name for truthiness instead of comparing it
FindUserByName_AnyName(userName) ==
    FirstIndex({ u \in 1..Len(libraryUsers) :
                    ToLowerCase(libraryUsers[u].name) # "" })

\* findUserByName: index of the first user with that name, case-insensitive
FindUserByName(userName) ==
    FirstIndex({ u \in 1..Len(libraryUsers) :
                    ToLowerCase(libraryUsers[u].name) = ToLowerCase(userName) })

\* mutant: the copy of borrowDate is returned without setDate
CalculateDueDate_NoLoan(borrowDate) == borrowDate

\* calculateDueDate: the calendar day 14 days after the borrow date
CalculateDueDate(borrowDate) == borrowDate + LoanDays

\* the instant of local midnight of a calendar day (Date.setHours(0,0,0,0)),
\* in hours
MidnightHours(day) ==
    HoursPerDay * day + (IF day >= DstDay THEN tzShift ELSE 0)

Abs(x) == IF x < 0 THEN -x ELSE x

\* Math.ceil(a / b) for a >= 0, b > 0
CeilDiv(a, b) == (a + b - 1) \div b

\* mutant: the entry's borrowDate is read instead of its dueDate
CheckOverdueStatus_FromBorrowDate(borrowEntry, now) ==
    LET todayMs == MidnightHours(now)
        dueMs   == MidnightHours(borrowEntry.borrowDate)
    IN  IF todayMs > dueMs
        THEN [isOverdue |-> TRUE,
              daysOverdue |-> CeilDiv(Abs(todayMs - dueMs), HoursPerDay)]
        ELSE [isOverdue |-> FALSE, daysOverdue |-> 0]

\* checkOverdueStatus, with new Date() falling on day `now`
CheckOverdueStatus(borrowEntry, now) ==
    LET todayMs == MidnightHours(now)
        dueMs   == MidnightHours(borrowEntry.dueDate)
    IN  IF todayMs > dueMs
        THEN [isOverdue |-> TRUE,
              daysOverdue |-> CeilDiv(Abs(todayMs - dueMs), HoursPerDay)]
        ELSE [isOverdue |-> FALSE, daysOverdue |-> 0]

\* the lines of modifying calls are told apart by their kind alone
NoArgs == [none |-> TRUE]

\* the line a modifying call prints, by its kind (borrowBook and returnBook print the
\* same "User ... not found" line, and they and removeBook the same "Book with
\* ID ... not found" line) and, for a late return, the days overdue and the
\* penalty the line reports
Log(outcome, days, penalty) ==
    [outcome |-> outcome, daysOverdue |-> days, penalty |-> penalty,
     args |-> NoArgs, lines |-> <<>>]

\* what a query prints: its kind, the arguments its first line shows and the
\* books it lists, which are the books it returns, in order
Report(outcome, args, lines) ==
    [outcome |-> outcome, daysOverdue |-> 0, penalty |-> 0,
     args |-> args, lines |-> lines]

----------------------------------------------------------------------------
(* Core functionality *)

\* !x for a publicationYear: undefined, NaN and 0 are falsy
IsFalsyYear(year) == year.type = "undefined" \/ IsNaN(year) \/ year.value = 0

\* addBook's validation: !x of id, title, author, genre and publicationYear,
\* and typeof rating
IsValidBook(book) ==
    ~( book.id = "" \/ book.title = "" \/ book.author = "" \/ book.genre = ""
       \/ book.rating.type # "number" \/ IsFalsyYear(book.publicationYear) )

\* the object addBook pushes
NewBook(book) ==
    [id |-> book.id, title |-> book.title, author |-> book.author,
     genre |-> book.genre, rating |-> book.rating.tenths,
     publicationYear |-> book.publicationYear.value,
     isAvailable |-> TRUE, borrowCount |-> 0]

\* mutant: no check for an existing id
BooksAfterAdd_NoDuplicateCheck(books, book) ==
    IF ~IsValidBook(book) THEN books
    ELSE Append(books, NewBook(book))

\* mutant: an existing id is overwritten by the new book before the error
BooksAfterAdd_Overwrite(books, book) ==
    IF ~IsValidBook(book) THEN books
    ELSE IF \E i \in 1..Len(books) : books[i].id = book.id
    THEN [i \in 1..Len(books) |->
            IF books[i].id = book.id THEN NewBook(book) ELSE books[i]]
    ELSE Append(books, NewBook(book))

\* addBook on a book array: the array afterwards
BooksAfterAdd(books, book) ==
    IF ~IsValidBook(book) THEN books
    ELSE IF \E i \in 1..Len(books) : books[i].id = book.id THEN books
    ELSE Append(books, NewBook(book))

\* addBook
AddBook(book) ==
    /\ libraryBooks' = BooksAfterAdd(libraryBooks, book)
    /\ console' =
         IF ~IsValidBook(book)
         THEN Log("ValidationError", 0, 0)
         ELSE IF FindBookById(book.id) # 0
         THEN Log("DuplicateIdError", 0, 0)
         ELSE Log("Added", 0, 0)
    /\ UNCHANGED <<libraryUsers, today, tzShift, borrowsEver, pageVars>>

RECURSIVE SumOver(_, _)
SumOver(f, S) ==
    IF S = {} THEN 0
    ELSE LET x == CHOOSE y \in S : TRUE IN f[x] + SumOver(f, S \ {x})

\* history: the successful borrowBook calls so far
TotalBorrows == SumOver(borrowsEver, DOMAIN borrowsEver)

\* mutant: isAvailable is left as it was
BorrowedBook_StaysAvailable(book) ==
    [book EXCEPT !.borrowCount = @ + 1]

\* mutant: borrowCount is left as it was
BorrowedBook_NotCounted(book) ==
    [book EXCEPT !.isAvailable = FALSE]

\* borrowBook's writes to the book
BorrowedBook(book) ==
    [book EXCEPT !.isAvailable = FALSE, !.borrowCount = @ + 1]

\* the entry borrowBook pushes, with new Date() falling on day `now`
NewBorrowEntry(bookId, now) ==
    [bookId |-> bookId, borrowDate |-> now, dueDate |-> CalculateDueDate(now)]

\* borrowBook, with new Date() falling on day today
BorrowBook(userName, bookId) ==
    LET u == FindUserByName(userName)
        b == FindBookById(bookId)
    IN  IF u = 0 THEN
            /\ console' = Log("UserNotFound", 0, 0)
            /\ UNCHANGED <<libraryBooks, libraryUsers, today, tzShift, borrowsEver, pageVars>>
        ELSE IF b = 0 THEN
            /\ console' = Log("BookNotFound", 0, 0)
            /\ UNCHANGED <<libraryBooks, libraryUsers, today, tzShift, borrowsEver, pageVars>>
        ELSE IF ~libraryBooks[b].isAvailable THEN
            /\ console' = Log("BookUnavailable", 0, 0)
            /\ UNCHANGED <<libraryBooks, libraryUsers, today, tzShift, borrowsEver, pageVars>>
        ELSE IF \E i \in 1..Len(libraryUsers[u].borrowedBooks) :
                    libraryUsers[u].borrowedBooks[i].bookId = bookId THEN
            /\ console' = Log("AlreadyBorrowed", 0, 0)
            /\ UNCHANGED <<libraryBooks, libraryUsers, today, tzShift, borrowsEver, pageVars>>
        ELSE
            /\ TotalBorrows < MaxBorrows
            /\ libraryBooks' = [libraryBooks EXCEPT ![b] = BorrowedBook(@)]
            /\ libraryUsers' =
                 [libraryUsers EXCEPT ![u].borrowedBooks =
                     Append(@, NewBorrowEntry(libraryBooks[b].id, today))]
            /\ borrowsEver' = [borrowsEver EXCEPT ![bookId] = @ + 1]
            /\ console' = Log("Borrowed", 0, 0)
            /\ UNCHANGED <<today, tzShift, pageVars>>

\* mutant: the penalty is subtracted
Penalty_Subtracted(daysOverdue) == 0 - daysOverdue * PenaltyPerDay

\* returnBook's penalty for an entry that is daysOverdue days late
Penalty(daysOverdue) == daysOverdue * PenaltyPerDay

\* returnBook, with new Date() falling on day today
ReturnBook(userName, bookId) ==
    LET u == FindUserByName(userName)
        b == FindBookById(bookId)
    IN  IF u = 0 THEN
            /\ console' = Log("UserNotFound", 0, 0)
            /\ UNCHANGED <<libraryBooks, libraryUsers, today, tzShift, borrowsEver, pageVars>>
        ELSE IF b = 0 THEN
            /\ console' = Log("BookNotFound", 0, 0)
            /\ UNCHANGED <<libraryBooks, libraryUsers, today, tzShift, borrowsEver, pageVars>>
        ELSE LET borrowIndex ==
                     FirstIndex({ i \in 1..Len(libraryUsers[u].borrowedBooks) :
                                    libraryUsers[u].borrowedBooks[i].bookId = bookId })
             IN  IF borrowIndex = 0 THEN
                     /\ console' = Log("NotBorrowedByUser", 0, 0)
                     /\ UNCHANGED <<libraryBooks, libraryUsers, today, tzShift,
                                    borrowsEver, pageVars>>
                 ELSE LET borrowEntry == libraryUsers[u].borrowedBooks[borrowIndex]
                          status == CheckOverdueStatus(borrowEntry, today)
                          penalty == Penalty(status.daysOverdue)
                      IN  /\ libraryBooks' =
                               [libraryBooks EXCEPT ![b].isAvailable = TRUE]
                          /\ libraryUsers' =
                               [libraryUsers EXCEPT
                                  ![u].borrowedBooks = Splice1(@, borrowIndex),
                                  ![u].penaltyPoints =
                                      IF status.isOverdue THEN @ + penalty ELSE @]
                          /\ console' =
                               IF status.isOverdue
                               THEN Log("ReturnedLate",
                                        status.daysOverdue, penalty)
                               ELSE Log("Returned", 0, 0)
                          /\ UNCHANGED <<today, tzShift, borrowsEver, pageVars>>

\* mutant: no check that the book is available
RemoveBook_NoBorrowCheck(bookId) ==
    LET bookIndex ==
            FirstIndex({ b \in 1..Len(libraryBooks) : libraryBooks[b].id = bookId })
    IN  IF bookIndex = 0 THEN
            /\ console' = Log("BookNotFound", 0, 0)
            /\ UNCHANGED <<libraryBooks, libraryUsers, today, tzShift, borrowsEver, pageVars>>
        ELSE
            /\ libraryBooks' = Splice1(libraryBooks, bookIndex)
            /\ console' = Log("Removed", 0, 0)
            /\ UNCHANGED <<libraryUsers, today, tzShift, borrowsEver, pageVars>>

\* removeBook
RemoveBook(bookId) ==
    LET bookIndex ==
            FirstIndex({ b \in 1..Len(libraryBooks) : libraryBooks[b].id = bookId })
    IN  IF bookIndex = 0 THEN
            /\ console' = Log("BookNotFound", 0, 0)
            /\ UNCHANGED <<libraryBooks, libraryUsers, today, tzShift, borrowsEver, pageVars>>
        ELSE IF ~libraryBooks[bookIndex].isAvailable THEN
            /\ console' = Log("BookCurrentlyBorrowed", 0, 0)
            /\ UNCHANGED <<libraryBooks, libraryUsers, today, tzShift, borrowsEver, pageVars>>
        ELSE
            /\ libraryBooks' = Splice1(libraryBooks, bookIndex)
            /\ console' = Log("Removed", 0, 0)
            /\ UNCHANGED <<libraryUsers, today, tzShift, borrowsEver, pageVars>>

\* time passes between two calls: the next call is made on a later day
AdvanceClock(day) ==
    /\ day > today
    /\ today' = day
    /\ UNCHANGED <<libraryBooks, libraryUsers, tzShift, console, borrowsEver, pageVars>>

----------------------------------------------------------------------------
(* Searching, ranking and recommending *)

\* a JS value passed as a search value: Number(n) (counted in tenths), NaN
\* (of type number) or a string
Str(s) == [type |-> "string", str |-> s]

\* String(value): a string is itself; the numeral of a number stands for a
\* text that no author and no genre of the catalog contains
StringOf(value) ==
    IF value.type = "string" THEN value.str
    ELSE IF IsNaN(value) THEN "NaN" ELSE "<numeral>"

\* String.prototype.includes on the lower-cased authors and needles in use
Includes(text, part) ==
    CASE part = ""      -> TRUE
      [] part = "alice" -> text = "alice wonderland"
      [] OTHER          -> text = part

\* mutant: a > b
GreaterOrEqual_Strict(a, b) == ~IsNaN(b) /\ a > b.tenths

\* a >= b of JS for a number a and a value b of type number, both in tenths:
\* every comparison with NaN is false
GreaterOrEqual(a, b) == ~IsNaN(b) /\ a >= b.tenths

RECURSIVE Filter(_, _)
\* Array.prototype.filter, given the indexes of the elements the predicate
\* keeps: those elements, in the order of the array
Filter(seq, keep) ==
    IF seq = <<>> THEN <<>>
    ELSE LET n == Len(seq)
             front == Filter(SubSeq(seq, 1, n - 1), keep)
         IN  IF n \in keep THEN Append(front, seq[n]) ELSE front

Min(a, b) == IF a < b THEN a ELSE b
Max(a, b) == IF a > b THEN a ELSE b

\* Array.prototype.slice(0, end): a negative end counts from the end of the
\* array, an end beyond the array stops at its length
Slice0(seq, end) ==
    SubSeq(seq, 1, IF end < 0 THEN Max(Len(seq) + end, 0) ELSE Min(end, Len(seq)))

\* mutant: the comparator (a, b) => a[field] - b[field]
CompareDescending_Ascending(a, b, field) == a[field] - b[field]

\* the comparator (a, b) => b[field] - a[field]
CompareDescending(a, b, field) == b[field] - a[field]

\* one step of a stable sort: x goes behind the elements the comparator does
\* not put after it
InsertSorted(sorted, x, field) ==
    LET k == Cardinality({ i \in 1..Len(sorted) :
                             CompareDescending(sorted[i], x, field) <= 0 })
    IN  SubSeq(sorted, 1, k) \o <<x>> \o SubSeq(sorted, k + 1, Len(sorted))

RECURSIVE Sort(_, _)
\* Array.prototype.sort with that comparator: a stable sort
Sort(seq, field) ==
    IF seq = <<>> THEN <<>>
    ELSE InsertSorted(Sort(SubSeq(seq, 1, Len(seq) - 1), field),
                      seq[Len(seq)], field)

\* searchBooksBy: what it prints and returns
SearchBooksByReturns(param, value) ==
    LET all == 1..Len(libraryBooks)
        field == ToLowerCase(param)
        Found(keep) ==
            LET results == Filter(libraryBooks, keep)
            IN  Report(IF results = <<>> THEN "NoBooksFound" ELSE "Found",
                       [param |-> param, value |-> value], results)
        Invalid == Report("InvalidQuery", [param |-> param, value |-> value], <<>>)
    IN  CASE field = "author" ->
               Found({ b \in all :
                   Includes(ToLowerCase(libraryBooks[b].author),
                            ToLowerCase(StringOf(value))) })
          [] field = "genre" ->
               Found({ b \in all :
                   ToLowerCase(libraryBooks[b].genre) = ToLowerCase(StringOf(value)) })
          [] field = "rating" ->
               IF value.type # "number" THEN Invalid
               ELSE Found({ b \in all :
                       GreaterOrEqual(libraryBooks[b].rating, value) })
          [] field = "year" ->
               IF value.type # "number" THEN Invalid
               ELSE Found({ b \in all :
                       GreaterOrEqual(10 * libraryBooks[b].publicationYear, value) })
          [] OTHER -> Invalid

\* searchBooksBy
SearchBooksBy(param, value) ==
    /\ console' = SearchBooksByReturns(param, value)
    /\ UNCHANGED <<libraryBooks, libraryUsers, today, tzShift, borrowsEver, pageVars>>

\* mutant: sort is called on the array itself
ArrayAfterSortOfCopy_InPlace(array, field) == Sort(array, field)

\* [...array].sort(...): the array after the call; the spread copy is sorted,
\* the array keeps its order
ArrayAfterSortOfCopy(array, field) == array

\* getTopRatedBooks: the books it returns
GetTopRatedBooksReturns(limit) == Slice0(Sort(libraryBooks, "rating"), limit)

\* getTopRatedBooks
GetTopRatedBooks(limit) ==
    /\ console' =
         LET topBooks == GetTopRatedBooksReturns(limit)
         IN  Report(IF topBooks = <<>> THEN "NoBooksToRate" ELSE "TopRated",
                    [limit |-> limit], topBooks)
    /\ libraryBooks' = ArrayAfterSortOfCopy(libraryBooks, "rating")
    /\ UNCHANGED <<libraryUsers, today, tzShift, borrowsEver, pageVars>>

\* getMostPopularBooks: the books it returns
GetMostPopularBooksReturns(limit) ==
    Slice0(Sort(libraryBooks, "borrowCount"), limit)

\* getMostPopularBooks
GetMostPopularBooks(limit) ==
    /\ console' =
         LET topBooks == GetMostPopularBooksReturns(limit)
         IN  Report(IF topBooks = <<>> THEN "NoBooksToTrack" ELSE "MostPopular",
                    [limit |-> limit], topBooks)
    /\ libraryBooks' = ArrayAfterSortOfCopy(libraryBooks, "borrowCount")
    /\ UNCHANGED <<libraryUsers, today, tzShift, borrowsEver, pageVars>>

\* the overdue entries of a user that checkOverdueUsers prints, in order
OverdueLinesOf(user) ==
    LET entries == libraryUsers[user].borrowedBooks
        overdue == Filter(entries,
                     { i \in 1..Len(entries) :
                         /\ FindBookById(entries[i].bookId) # 0
                         /\ CheckOverdueStatus(entries[i], today).isOverdue })
    IN  [i \in 1..Len(overdue) |->
           [user |-> libraryUsers[user].name,
            title |-> libraryBooks[FindBookById(overdue[i].bookId)].title,
            daysOverdue |-> CheckOverdueStatus(overdue[i], today).daysOverdue]]

RECURSIVE OverdueLines(_)
\* the lines checkOverdueUsers prints for the first n users
OverdueLines(n) ==
    IF n = 0 THEN <<>> ELSE OverdueLines(n - 1) \o OverdueLinesOf(n)

\* checkOverdueUsers
CheckOverdueUsers ==
    /\ console' =
         LET lines == OverdueLines(Len(libraryUsers))
         IN  Report(IF lines = <<>> THEN "NoOverdueBooks" ELSE "OverdueBooks",
                    NoArgs, lines)
    /\ UNCHANGED <<libraryBooks, libraryUsers, today, tzShift, borrowsEver, pageVars>>

\* recommendBooks: unborrowedBooks.slice(0, 5)
RecommendLimit == 5

\* mutant: the filter does not test isAvailable
UnborrowedBooks_AlsoUnavailable(user) ==
    Sort(Filter(libraryBooks,
                { b \in 1..Len(libraryBooks) :
                    ~\E i \in 1..Len(libraryUsers[user].borrowedBooks) :
                          libraryUsers[user].borrowedBooks[i].bookId
                              = libraryBooks[b].id }),
         "rating")

\* recommendBooks' unborrowedBooks for a user: the available books the user
\* does not hold, highest rating first
UnborrowedBooks(user) ==
    Sort(Filter(libraryBooks,
                { b \in 1..Len(libraryBooks) :
                    /\ libraryBooks[b].isAvailable
                    /\ ~\E i \in 1..Len(libraryUsers[user].borrowedBooks) :
                          libraryUsers[user].borrowedBooks[i].bookId
                              = libraryBooks[b].id }),
         "rating")

\* recommendBooks' borrowedGenres: the genres of the books the user holds
BorrowedGenres(user) ==
    { libraryBooks[FindBookById(libraryUsers[user].borrowedBooks[i].bookId)].genre :
        i \in { j \in 1..Len(libraryUsers[user].borrowedBooks) :
                  FindBookById(libraryUsers[user].borrowedBooks[j].bookId) # 0 } }

\* mutant: the genre recommendations are cut to 5 books as well
RecommendBooksReturns_Capped(userName) ==
    LET user == FindUserByName(userName)
        recommendations ==
            Sort(Filter(libraryBooks,
                        { b \in 1..Len(libraryBooks) :
                            /\ libraryBooks[b].isAvailable
                            /\ ~\E i \in 1..Len(libraryUsers[user].borrowedBooks) :
                                  libraryUsers[user].borrowedBooks[i].bookId
                                      = libraryBooks[b].id
                            /\ libraryBooks[b].genre \in BorrowedGenres(user) }),
                 "rating")
    IN  IF user = 0 THEN Report("UserNotFound", [userName |-> userName], <<>>)
        ELSE IF BorrowedGenres(user) = {}
        THEN Report("TopRatedUnborrowed", [userName |-> userName],
                    Slice0(UnborrowedBooks(user), RecommendLimit))
        ELSE IF recommendations = <<>>
        THEN Report("OtherHighlyRated", [userName |-> userName],
                    Slice0(UnborrowedBooks(user), RecommendLimit))
        ELSE Report("Recommended", [userName |-> userName],
                    Slice0(recommendations, RecommendLimit))

\* recommendBooks: what it prints and returns
RecommendBooksReturns(userName) ==
    LET user == FindUserByName(userName)
        recommendations ==
            Sort(Filter(libraryBooks,
                        { b \in 1..Len(libraryBooks) :
                            /\ libraryBooks[b].isAvailable
                            /\ ~\E i \in 1..Len(libraryUsers[user].borrowedBooks) :
                                  libraryUsers[user].borrowedBooks[i].bookId
                                      = libraryBooks[b].id
                            /\ libraryBooks[b].genre \in BorrowedGenres(user) }),
                 "rating")
    IN  IF user = 0 THEN Report("UserNotFound", [userName |-> userName], <<>>)
        ELSE IF BorrowedGenres(user) = {}
        THEN Report("TopRatedUnborrowed", [userName |-> userName],
                    Slice0(UnborrowedBooks(user), RecommendLimit))
        ELSE IF recommendations = <<>>
        THEN Report("OtherHighlyRated", [userName |-> userName],
                    Slice0(UnborrowedBooks(user), RecommendLimit))
        ELSE Report("Recommended", [userName |-> userName], recommendations)

\* recommendBooks
RecommendBooks(userName) ==
    /\ console' = RecommendBooksReturns(userName)
    /\ UNCHANGED <<libraryBooks, libraryUsers, today, tzShift, borrowsEver, pageVars>>

\* printUserSummary
PrintUserSummary(userName) ==
    /\ console' =
         LET user == FindUserByName(userName)
             entries == libraryUsers[user].borrowedBooks
             found == Filter(entries, { i \in 1..Len(entries) :
                                          FindBookById(entries[i].bookId) # 0 })
         IN  IF user = 0 THEN Report("UserNotFound", [userName |-> userName], <<>>)
             ELSE Report("UserSummary", [userName |-> userName],
                    <<[penaltyPoints |-> libraryUsers[user].penaltyPoints]>> \o
                    [i \in 1..Len(found) |->
                       [title |-> libraryBooks[FindBookById(found[i].bookId)].title,
                        dueDate |-> found[i].dueDate,
                        overdue |-> CheckOverdueStatus(found[i], today)]])
    /\ UNCHANGED <<libraryBooks, libraryUsers, today, tzShift, borrowsEver, pageVars>>

\* listAllBooks
ListAllBooks ==
    /\ console' = Report(IF libraryBooks = <<>> THEN "LibraryEmpty" ELSE "AllBooks",
                         NoArgs, libraryBooks)
    /\ UNCHANGED <<libraryBooks, libraryUsers, today, tzShift, borrowsEver, pageVars>>

\* listAllUsers
ListAllUsers ==
    /\ console' =
         Report(IF libraryUsers = <<>> THEN "NoUsers" ELSE "AllUsers", NoArgs,
                [u \in 1..Len(libraryUsers) |->
                   [id |-> libraryUsers[u].id, name |-> libraryUsers[u].name,
                    penaltyPoints |-> libraryUsers[u].penaltyPoints]])
    /\ UNCHANGED <<libraryBooks, libraryUsers, today, tzShift, borrowsEver, pageVars>>

----------------------------------------------------------------------------
(* Command line interface *)

\* a command line is the sequence of its runs of characters: runs of
\* whitespace and, between them, words (runs without whitespace)
Whitespace == {" ", "\t"}

\* String.prototype.trim: without the whitespace at both ends
Trim(line) ==
    LET words == { i \in 1..Len(line) : line[i] \notin Whitespace }
    IN  IF words = {} THEN <<>>
        ELSE SubSeq(line, CHOOSE i \in words : \A j \in words : i <= j,
                          CHOOSE i \in words : \A j \in words : i >= j)

\* String.prototype.split(/\s+/): the words between the whitespace runs; a line
\* that starts (ends) with whitespace has an empty first (last) part, and
\* the empty line has the one part ''
Split(line) ==
    IF line = <<>> THEN <<"">>
    ELSE (IF line[1] \in Whitespace THEN <<"">> ELSE <<>>)
         \o Filter(line, { i \in 1..Len(line) : line[i] \notin Whitespace })
         \o (IF line[Len(line)] \in Whitespace THEN <<"">> ELSE <<>>)

RECURSIVE Join(_)
\* Array.prototype.join(' ')
Join(words) ==
    IF words = <<>> THEN ""
    ELSE IF Len(words) = 1 THEN words[1]
    ELSE words[1] \o " " \o Join(Tail(words))

\* args[i], with undefined as ""
ArgAt(args, i) == IF i \in 1..Len(args) THEN args[i] ELSE ""

\* the words in use that parseFloat reads as a number, with the number in tenths
TenthsOf ==
    [word \in {"-1", "0", "3", "4.5", "4.8", "2020"} |->
        CASE word = "-1" -> -10 [] word = "0" -> 0 [] word = "3" -> 30
          [] word = "4.5" -> 45 [] word = "4.8" -> 48 [] word = "2020" -> 20200]

\* parseFloat
ParseFloat(word) ==
    IF word \in DOMAIN TenthsOf THEN Number(TenthsOf[word]) ELSE NaN

\* parseInt: the integer part, as a number in tenths
ParseInt(word) ==
    IF word \notin DOMAIN TenthsOf THEN NaN
    ELSE IF TenthsOf[word] < 0 THEN Number(-10 * ((-TenthsOf[word]) \div 10))
    ELSE Number(10 * (TenthsOf[word] \div 10))

\* /^\d+(\.\d+)?$/.test(word): digits with an optional fraction, no sign
IsNumeral(word) == word \in DOMAIN TenthsOf /\ TenthsOf[word] >= 0

\* the genre words the addBook case looks for
GenreWords == {"fantasy", "technology", "mystery", "sci-fi", "history"}

\* the index at which a while loop over args that starts at index i stops:
\* the first index from i on that is in stops, or the one behind the last
LoopEnd(args, i, stops) ==
    CHOOSE j \in i..Max(i, Len(args) + 1) :
        /\ j > Len(args) \/ j \in stops
        /\ \A k \in i..(j - 1) : k <= Len(args) /\ k \notin stops

\* the book the addBook case builds from its arguments
ParsedBook(args) ==
    LET titleStops ==
            { j \in 1..Len(args) :
                \/ \E u \in 1..Len(libraryUsers) :
                      ToLowerCase(libraryUsers[u].name) = ToLowerCase(args[j])
                \/ ToLowerCase(args[j]) \in GenreWords
                \/ IsNumeral(args[j]) }
        authorStops ==
            { j \in 1..Len(args) :
                ToLowerCase(args[j]) \in GenreWords \/ IsNumeral(args[j]) }
        titleEnd == LoopEnd(args, 2, titleStops)
        authorEnd == LoopEnd(args, titleEnd, authorStops)
        year == ParseInt(ArgAt(args, authorEnd + 2))
    IN  [id |-> args[1],
         title |-> Join(SubSeq(args, 2, titleEnd - 1)),
         author |-> Join(SubSeq(args, titleEnd, authorEnd - 1)),
         genre |-> ArgAt(args, authorEnd),
         rating |-> ParseFloat(ArgAt(args, authorEnd + 1)),
         publicationYear |-> IF IsNaN(year) THEN NaN ELSE Year(year.tenths \div 10)]

\* a line processCommand prints itself: a usage line, the help, the unknown
\* command line or the goodbye
Say(outcome) ==
    /\ console' = Log(outcome, 0, 0)
    /\ UNCHANGED <<libraryBooks, libraryUsers, today, tzShift, borrowsEver, pageVars>>

\* processCommand, while the readline interface is open (exit closes it, and
\* no further line is read)
ProcessCommand(commandLine) ==
    LET parts == Split(Trim(commandLine))
        command == parts[1]
        args == Tail(parts)
    IN  /\ console.outcome # "Goodbye"
        /\ CASE command = "addBook" ->
                  IF Len(args) >= 6 THEN AddBook(ParsedBook(args)) ELSE Say("Usage")
             [] command = "borrowBook" ->
                  IF Len(args) = 2 THEN BorrowBook(args[1], args[2]) ELSE Say("Usage")
             [] command = "returnBook" ->
                  IF Len(args) = 2 THEN ReturnBook(args[1], args[2]) ELSE Say("Usage")
             [] command = "searchBooksBy" ->
                  IF Len(args) >= 2
                  THEN LET param == args[1]
                           value == Join(Tail(args))
                       IN  SearchBooksBy(param,
                             IF ToLowerCase(param) = "rating" THEN ParseFloat(value)
                             ELSE IF ToLowerCase(param) = "year" THEN ParseInt(value)
                             ELSE Str(value))
                  ELSE Say("Usage")
             [] command = "getTopRatedBooks" ->
                  IF Len(args) = 1 /\ ~IsNaN(ParseInt(args[1]))
                  THEN GetTopRatedBooks(ParseInt(args[1]).tenths \div 10)
                  ELSE Say("Usage")
             [] command = "getMostPopularBooks" ->
                  IF Len(args) = 1 /\ ~IsNaN(ParseInt(args[1]))
                  THEN GetMostPopularBooks(ParseInt(args[1]).tenths \div 10)
                  ELSE Say("Usage")
             [] command = "checkOverdueUsers" -> CheckOverdueUsers
             [] command = "recommendBooks" ->
                  IF Len(args) = 1 THEN RecommendBooks(args[1]) ELSE Say("Usage")
             [] command = "removeBook" ->
                  IF Len(args) = 1 THEN RemoveBook(args[1]) ELSE Say("Usage")
             [] command = "printUserSummary" ->
                  IF Len(args) = 1 THEN PrintUserSummary(args[1]) ELSE Say("Usage")
             [] command = "listAllBooks" -> ListAllBooks
             [] command = "listAllUsers" -> ListAllUsers
             [] command = "help" -> Say("Help")
             [] command = "exit" -> Say("Goodbye")
             [] command = "" -> UNCHANGED vars
             [] OTHER -> Say("UnknownCommand")

----------------------------------------------------------------------------
(* Data initialization *)

\* the books initializeLibraryData adds, in order
InitialBooks ==
    << [id |-> "B001", title |-> "The Great Adventure", author |-> "Alice Wonderland",
        genre |-> "Fantasy", rating |-> Number(45), publicationYear |-> Year(2005)],
       [id |-> "B002", title |-> "Code Master", author |-> "Bob Builder",
        genre |-> "Technology", rating |-> Number(48), publicationYear |-> Year(2020)],
       [id |-> "B003", title |-> "Mystery of the Old House", author |-> "Charlie Chaplin",
        genre |-> "Mystery", rating |-> Number(39), publicationYear |-> Year(1998)],
       [id |-> "B004", title |-> "Galactic Odyssey", author |-> "Alice Wonderland",
        genre |-> "Sci-Fi", rating |-> Number(47), publicationYear |-> Year(2015)],
       [id |-> "B005", title |-> "The Silent Witness", author |-> "David Detective",
        genre |-> "Mystery", rating |-> Number(42), publicationYear |-> Year(2010)],
       [id |-> "B006", title |-> "Historical Echoes", author |-> "Eve Historian",
        genre |-> "History", rating |-> Number(41), publicationYear |-> Year(2001)],
       [id |-> "B007", title |-> "Fantasy Realm", author |-> "Alice Wonderland",
        genre |-> "Fantasy", rating |-> Number(46), publicationYear |-> Year(2008)],
       [id |-> "B008", title |-> "AI Revolution", author |-> "Bob Builder",
        genre |-> "Technology", rating |-> Number(49), publicationYear |-> Year(2023)] >>

\* mutant: the first user's name is a single word
InitialUsers_SingleWord ==
    << [id |-> "U001", name |-> "John", borrowedBooks |-> <<>>, penaltyPoints |-> 0],
       [id |-> "U002", name |-> "Jane Smith", borrowedBooks |-> <<>>, penaltyPoints |-> 0],
       [id |-> "U003", name |-> "Peter Jones", borrowedBooks |-> <<>>, penaltyPoints |-> 0] >>

\* the users initializeLibraryData pushes, in order
InitialUsers ==
    << [id |-> "U001", name |-> "John Doe", borrowedBooks |-> <<>>, penaltyPoints |-> 0],
       [id |-> "U002", name |-> "Jane Smith", borrowedBooks |-> <<>>, penaltyPoints |-> 0],
       [id |-> "U003", name |-> "Peter Jones", borrowedBooks |-> <<>>, penaltyPoints |-> 0] >>

RECURSIVE AddAll(_, _)
\* the addBook calls of initializeLibraryData, one after the other
AddAll(books, toAdd) ==
    IF toAdd = <<>> THEN books
    ELSE AddAll(BooksAfterAdd(books, Head(toAdd)), Tail(toAdd))

\* the state initializeLibraryData leaves, before the first command
Init ==
    /\ libraryBooks = AddAll(<<>>, InitialBooks)
    /\ libraryUsers = InitialUsers
    /\ today = 0
    /\ tzShift \in TzShifts
    /\ console = Log("Initialized", 0, 0)
    /\ borrowsEver = [id \in BookIds |-> 0]
    /\ NoPageLoaded

Next ==
    \/ \E book \in Candidates : AddBook(book)
    \/ \E userName \in UserNames, bookId \in BookIds : BorrowBook(userName, bookId)
    \/ \E userName \in UserNames, bookId \in BookIds : ReturnBook(userName, bookId)
    \/ \E bookId \in BookIds : RemoveBook(bookId)
    \/ \E day \in CallDays : AdvanceClock(day)

Spec == Init /\ [][Next]_vars

----------------------------------------------------------------------------
(* The library with its queries: the calls are made on one day, with
   searchBooksBy, getTopRatedBooks, getMostPopularBooks and recommendBooks
   among them *)

\* book ids passed to the modifying operations: two initial books of
\* different genres (one the only book of its genre) and a new id
QueryIds == {"B001", "B006", "B010"}

\* books passed to addBook: a valid book whose rating equals that of an
\* initial book, and books with one field missing, empty, zero or of another
\* type
ValidCandidate ==
    [id |-> "B010", title |-> "Z", author |-> "W", genre |-> "Fantasy",
     rating |-> Number(48), publicationYear |-> Year(2020)]
QueryCandidates ==
    { ValidCandidate,
      [ValidCandidate EXCEPT !.id = ""],
      [ValidCandidate EXCEPT !.title = ""],
      [ValidCandidate EXCEPT !.author = ""],
      [ValidCandidate EXCEPT !.genre = ""],
      [ValidCandidate EXCEPT !.rating = NotANumber],
      [ValidCandidate EXCEPT !.rating = Str("4.8")],
      [ValidCandidate EXCEPT !.publicationYear = NoYear],
      [ValidCandidate EXCEPT !.publicationYear = Year(0)] }

\* limits passed to getTopRatedBooks and getMostPopularBooks
Limits == {-1, 0, 1, 3, 10}

\* parameters and values passed to searchBooksBy
SearchParams == {"author", "genre", "rating", "Rating", "year", "title"}
SearchValues == {Number(45), Number(20050), NaN, Str("Alice"), Str("fantasy")}

QueryInit ==
    /\ libraryBooks = AddAll(<<>>, InitialBooks)
    /\ libraryUsers = InitialUsers
    /\ today = 0
    /\ tzShift = 0
    /\ console = Log("Initialized", 0, 0)
    /\ borrowsEver = [id \in QueryIds |-> 0]
    /\ NoPageLoaded

QueryNext ==
    \/ \E book \in QueryCandidates : AddBook(book)
    \/ \E userName \in UserNames, bookId \in QueryIds : BorrowBook(userName, bookId)
    \/ \E userName \in UserNames, bookId \in QueryIds : ReturnBook(userName, bookId)
    \/ \E bookId \in QueryIds : RemoveBook(bookId)
    \/ \E param \in SearchParams, value \in SearchValues : SearchBooksBy(param, value)
    \/ \E limit \in Limits : GetTopRatedBooks(limit)
    \/ \E limit \in Limits : GetMostPopularBooks(limit)
    \/ \E userName \in UserNames : RecommendBooks(userName)
    \/ CheckOverdueUsers
    \/ \E userName \in UserNames : PrintUserSummary(userName)
    \/ ListAllBooks
    \/ ListAllUsers

QuerySpec == QueryInit /\ [][QueryNext]_vars

----------------------------------------------------------------------------
(* The library with a shelf of one genre: the state after
   initializeLibraryData and the addBook calls of five more Fantasy books,
   then borrows, returns, recommendBooks, checkOverdueUsers and
   printUserSummary on days around a due date *)

\* five Fantasy books added after the initial ones
FantasyShelf ==
    << [id |-> "B011", title |-> "F1", author |-> "Y", genre |-> "Fantasy",
        rating |-> Number(50), publicationYear |-> Year(2011)],
       [id |-> "B012", title |-> "F2", author |-> "Y", genre |-> "Fantasy",
        rating |-> Number(44), publicationYear |-> Year(2012)],
       [id |-> "B013", title |-> "F3", author |-> "Y", genre |-> "Fantasy",
        rating |-> Number(43), publicationYear |-> Year(2013)],
       [id |-> "B014", title |-> "F4", author |-> "Y", genre |-> "Fantasy",
        rating |-> Number(38), publicationYear |-> Year(2014)],
       [id |-> "B015", title |-> "F5", author |-> "Y", genre |-> "Fantasy",
        rating |-> Number(46), publicationYear |-> Year(2015)] >>

\* book ids passed to borrowBook and returnBook: a Fantasy book and the only
\* History book
ShelfIds == {"B001", "B006"}

ShelfInit ==
    /\ libraryBooks = AddAll(<<>>, InitialBooks \o FantasyShelf)
    /\ libraryUsers = InitialUsers
    /\ today = 0
    /\ tzShift = 0
    /\ console = Log("Added", 0, 0)
    /\ borrowsEver = [id \in ShelfIds |-> 0]
    /\ NoPageLoaded

ShelfNext ==
    \/ \E userName \in UserNames, bookId \in ShelfIds : BorrowBook(userName, bookId)
    \/ \E userName \in UserNames, bookId \in ShelfIds : ReturnBook(userName, bookId)
    \/ \E userName \in UserNames : RecommendBooks(userName)
    \/ \E day \in CallDays : AdvanceClock(day)
    \/ CheckOverdueUsers
    \/ \E userName \in UserNames : PrintUserSummary(userName)

ShelfSpec == ShelfInit /\ [][ShelfNext]_vars

----------------------------------------------------------------------------
(* The library behind its command line: the lines typed at the prompt, on
   one day *)

\* the lines typed: borrowBook and returnBook with a full name, with each
\* word of a name and with a name written as one word, with blanks and tabs
\* around and between the words; the other commands with and without their
\* arguments; the empty line and an unknown command
CommandLines ==
    { <<"borrowBook", " ", "John", " ", "Doe", " ", "B001">>,
      <<"borrowBook", " ", "John", " ", "B001">>,
      <<"borrowBook", " ", "Doe", " ", "B001">>,
      <<"borrowBook", " ", "JohnDoe", " ", "B001">>,
      <<"borrowBook", " ", "John_Doe", " ", "B001">>,
      <<"borrowBook", "\t", "John", "\t", "Doe", "\t", "B001">>,
      <<" ", "borrowBook", " ", "jane", " ", "B002", " ">>,
      <<"borrowBook", " ", "John", " ", "B404">>,
      <<"returnBook", " ", "John", " ", "B001">>,
      <<"returnBook", " ", "John", " ", "Doe", " ", "B001">>,
      <<"removeBook", " ", "B001">>,
      <<"removeBook", " ", "B003">>,
      <<"removeBook", " ", "B005">>,
      <<"removeBook", " ", "John", " ", "Doe">>,
      <<"searchBooksBy", " ", "genre", " ", "fantasy">>,
      <<"removeBook">>,
      <<"addBook", " ", "B010", " ", "Z", " ", "W", " ", "Fantasy", " ", "4.8",
        " ", "2020">>,
      <<"addBook", " ", "B010", " ", "Z", " ", "4.8">>,
      <<"searchBooksBy", " ", "rating", " ", "4.5">>,
      <<"searchBooksBy", " ", "rating", " ", "abc">>,
      <<"searchBooksBy", " ", "author", " ", "Alice", " ", "Wonderland">>,
      <<"searchBooksBy", " ", "year">>,
      <<"getTopRatedBooks", " ", "3">>,
      <<"getTopRatedBooks", " ", "-1">>,
      <<"getTopRatedBooks", " ", "x">>,
      <<"getMostPopularBooks", " ", "3">>,
      <<"checkOverdueUsers">>,
      <<"recommendBooks", " ", "John">>,
      <<"recommendBooks", " ", "John", " ", "Doe">>,
      <<"printUserSummary", " ", "John">>,
      <<"listAllBooks">>,
      <<"listAllUsers">>,
      <<"help">>,
      <<"exit">>,
      <<>>,
      <<"borrow", " ", "B001">> }

CommandInit ==
    /\ libraryBooks = AddAll(<<>>, InitialBooks)
    /\ libraryUsers = InitialUsers
    /\ today = 0
    /\ tzShift = 0
    /\ console = Log("Initialized", 0, 0)
    /\ borrowsEver = [id \in BookIds |-> 0]
    /\ NoPageLoaded

CommandNext == \E commandLine \in CommandLines : ProcessCommand(commandLine)

CommandSpec == CommandInit /\ [][CommandNext]_vars

----------------------------------------------------------------------------
(* Properties of the virtual library *)

UserIndexes == 1..Len(libraryUsers)
BookIndexes == 1..Len(libraryBooks)

\* the ids of the books in the catalog
CatalogIds == { libraryBooks[b].id : b \in BookIndexes }
CatalogIdsAfter == { libraryBooks'[b].id : b \in 1..Len(libraryBooks') }

\* the book of the catalog with an id (for an id of CatalogIds)
BookOf(id) == libraryBooks[CHOOSE b \in BookIndexes : libraryBooks[b].id = id]
BookAfterOf(id) ==
    libraryBooks'[CHOOSE b \in 1..Len(libraryBooks') : libraryBooks'[b].id = id]

\* the users whose borrowedBooks holds an entry for a book id
Holders(id) ==
    { u \in UserIndexes :
        \E i \in 1..Len(libraryUsers[u].borrowedBooks) :
            libraryUsers[u].borrowedBooks[i].bookId = id }

\* the registered users a name denotes (names compare case-insensitively)
UsersNamed(userName) ==
    { u \in UserIndexes : ToLowerCase(libraryUsers[u].name) = ToLowerCase(userName) }

\* this step removes entry i of user u's borrowedBooks: a successful returnBook
ReturnsEntry(u, i) ==
    /\ console'.outcome \in {"Returned", "ReturnedLate"}
    /\ i \in 1..Len(libraryUsers[u].borrowedBooks)
    /\ libraryUsers'[u].borrowedBooks = Splice1(libraryUsers[u].borrowedBooks, i)
    /\ \A v \in UserIndexes \ {u} :
          libraryUsers'[v].borrowedBooks = libraryUsers[v].borrowedBooks

\* this step changes the book array (a step that does not leaves every book,
\* its id, isAvailable and borrowCount, where it was)
BooksChange == libraryBooks' # libraryBooks

\* the lines addBook, returnBook and removeBook can print
AddOutcomes == {"ValidationError", "DuplicateIdError", "Added"}
ReturnOutcomes ==
    {"UserNotFound", "BookNotFound", "NotBorrowedByUser", "Returned", "ReturnedLate"}
RemoveOutcomes == {"BookNotFound", "BookCurrentlyBorrowed", "Removed"}

\* the outcomes that are failures
Failures ==
    {"ValidationError", "DuplicateIdError", "UserNotFound", "BookNotFound",
     "BookUnavailable", "AlreadyBorrowed", "NotBorrowedByUser",
     "BookCurrentlyBorrowed"}

\* C1: in every reachable state a book is unavailable if and only if exactly
\* one user's borrowedBooks holds an entry with the book's id.
C1_UnavailableIffOneHolder ==
    \A b \in BookIndexes :
        (~libraryBooks[b].isAvailable)
            <=> (Cardinality(Holders(libraryBooks[b].id)) = 1)

\* C1 witness: after a successful borrow two different users hold one book
\* each, and both books are unavailable.
C1_Witness ==
    /\ console.outcome = "Borrowed"
    /\ \E b1, b2 \in BookIndexes :
          /\ b1 # b2
          /\ ~libraryBooks[b1].isAvailable
          /\ ~libraryBooks[b2].isAvailable
          /\ Holders(libraryBooks[b1].id) # Holders(libraryBooks[b2].id)

\* C2 (as claimed): a successful returnBook made k > 0 calendar days after the
\* entry's dueDate adds exactly 5 * k to that user's penaltyPoints.
C2_PenaltyIsFivePerDayLate ==
    [][ \A u \in UserIndexes : \A i \in 1..Len(libraryUsers[u].borrowedBooks) :
          ( /\ ReturnsEntry(u, i)
            /\ today > libraryUsers[u].borrowedBooks[i].dueDate )
          => libraryUsers'[u].penaltyPoints =
                libraryUsers[u].penaltyPoints
                + 5 * (today - libraryUsers[u].borrowedBooks[i].dueDate)
      ]_vars

\* C3: a successful returnBook on a day not later than the entry's dueDate (the
\* day of the borrow included) leaves every user's penaltyPoints unchanged.
C3_NoPenaltyUntilDueDate ==
    [][ \A u \in UserIndexes : \A i \in 1..Len(libraryUsers[u].borrowedBooks) :
          ( /\ ReturnsEntry(u, i)
            /\ today <= libraryUsers[u].borrowedBooks[i].dueDate )
          => \A v \in UserIndexes :
                libraryUsers'[v].penaltyPoints = libraryUsers[v].penaltyPoints
      ]_vars

\* C3 witness: a book borrowed on day 0 has been returned on day 0 (every borrow
\* so far was made on day 0, the clock never moved).
C3_Witness ==
    /\ today = 0
    /\ console.outcome = "Returned"
    /\ TotalBorrows > 0

\* C4: for an id in the catalog, removeBook fails with BookCurrentlyBorrowed if
\* and only if the book is unavailable; a failure leaves the books unchanged, a
\* success deletes exactly that book and leaves the other books, in order, and
\* all users unchanged.
C4_RemoveFailsIffBorrowed ==
    [][ \A id \in BookIds :
          (console'.outcome \in RemoveOutcomes /\ RemoveBook(id) /\ id \in CatalogIds)
          => /\ (console'.outcome = "BookCurrentlyBorrowed")
                    <=> ~BookOf(id).isAvailable
             /\ console'.outcome \in {"BookCurrentlyBorrowed", "Removed"}
             /\ console'.outcome = "BookCurrentlyBorrowed"
                    => libraryBooks' = libraryBooks
             /\ console'.outcome = "Removed"
                    => /\ id \notin CatalogIdsAfter
                       /\ Len(libraryBooks') = Len(libraryBooks) - 1
                       /\ \E b \in BookIndexes :
                            /\ libraryBooks[b].id = id
                            /\ \A c \in 1..Len(libraryBooks') :
                                  libraryBooks'[c] =
                                     libraryBooks[IF c < b THEN c ELSE c + 1]
             /\ libraryUsers' = libraryUsers
      ]_vars

\* C4 witness: removeBook has just failed on a borrowed book, which is still in
\* the catalog.
C4_Witness ==
    /\ console.outcome = "BookCurrentlyBorrowed"
    /\ \E b \in BookIndexes :
          libraryBooks[b].id \in BookIds /\ ~libraryBooks[b].isAvailable

NoTwoBooksShareAnId ==
    \A b, c \in BookIndexes : libraryBooks[b].id = libraryBooks[c].id => b = c

C6_FailureChangesNothing ==
    [][ console'.outcome \in Failures
          => /\ libraryBooks' = libraryBooks
             /\ libraryUsers' = libraryUsers
      ]_vars

\* C6 witness: borrowBook has just failed with BookUnavailable while a book is
\* borrowed and a user has penalty points.
C6_Witness ==
    /\ console.outcome = "BookUnavailable"
    /\ \E b \in BookIndexes : ~libraryBooks[b].isAvailable
    /\ \E u \in UserIndexes : libraryUsers[u].penaltyPoints > 0

\* C7: a successful borrowBook makes the book unavailable, adds 1 to its
\* borrowCount and appends to the user's borrowedBooks one entry for the book,
\* borrowed today and due 14 days later; no other field, book or user changes.
C7_BorrowEffect ==
    [][ \A userName \in UserNames : \A id \in BookIds :
          (console'.outcome = "Borrowed" /\ BorrowBook(userName, id))
          => /\ Len(libraryBooks') = Len(libraryBooks)
             /\ \A b \in BookIndexes :
                  IF libraryBooks[b].id = id
                  THEN /\ ~libraryBooks'[b].isAvailable
                       /\ libraryBooks'[b].borrowCount
                             = libraryBooks[b].borrowCount + 1
                       /\ [libraryBooks'[b] EXCEPT
                             !.isAvailable = libraryBooks[b].isAvailable,
                             !.borrowCount = libraryBooks[b].borrowCount]
                             = libraryBooks[b]
                  ELSE libraryBooks'[b] = libraryBooks[b]
             /\ Len(libraryUsers') = Len(libraryUsers)
             /\ \A u \in UserIndexes :
                  /\ libraryUsers'[u].penaltyPoints = libraryUsers[u].penaltyPoints
                  /\ libraryUsers'[u].name = libraryUsers[u].name
                  /\ libraryUsers'[u].id = libraryUsers[u].id
                  /\ IF u \in UsersNamed(userName)
                     THEN \E entry \in { [bookId |-> id, borrowDate |-> today,
                                          dueDate |-> today + 14] } :
                            libraryUsers'[u].borrowedBooks
                               = Append(libraryUsers[u].borrowedBooks, entry)
                     ELSE libraryUsers'[u].borrowedBooks
                               = libraryUsers[u].borrowedBooks
      ]_vars

\* C7 witness: borrowBook has just succeeded on a day after day 0: a user holds
\* an entry borrowed today.
C7_Witness ==
    /\ console.outcome = "Borrowed"
    /\ today > 0
    /\ \E u \in UserIndexes : \E i \in 1..Len(libraryUsers[u].borrowedBooks) :
          libraryUsers[u].borrowedBooks[i].borrowDate = today

\* C8: an unavailable book becomes available only in a successful returnBook
\* that takes the entry from its holder; returnBook for it by another
\* registered user fails with NotBorrowedByUser and changes no book and no user.
C8_OnlyHolderReturns ==
    [][ /\ BooksChange => \A b \in BookIndexes : \A c \in 1..Len(libraryBooks') :
             ( /\ libraryBooks'[c].id = libraryBooks[b].id
               /\ ~libraryBooks[b].isAvailable
               /\ libraryBooks'[c].isAvailable )
             => /\ console'.outcome \in {"Returned", "ReturnedLate"}
                /\ \E u \in Holders(libraryBooks[b].id) :
                     \E i \in 1..Len(libraryUsers[u].borrowedBooks) :
                        /\ libraryUsers[u].borrowedBooks[i].bookId
                              = libraryBooks[b].id
                        /\ ReturnsEntry(u, i)
        /\ console'.outcome \in ReturnOutcomes
           => \A b \in BookIndexes :
                (~libraryBooks[b].isAvailable /\ libraryBooks[b].id \in BookIds)
                => \A userName \in UserNames :
                     ( /\ UsersNamed(userName) # {}
                       /\ UsersNamed(userName) \cap Holders(libraryBooks[b].id) = {}
                       /\ ReturnBook(userName, libraryBooks[b].id) )
                     => /\ console'.outcome = "NotBorrowedByUser"
                        /\ libraryBooks' = libraryBooks
                        /\ libraryUsers' = libraryUsers
      ]_vars

\* C8 witness: returnBook has just failed with NotBorrowedByUser while every
\* book it can have been called for is borrowed.
C8_Witness ==
    /\ console.outcome = "NotBorrowedByUser"
    /\ \A id \in BookIds \cap CatalogIds : ~BookOf(id).isAvailable

\* C9: a user's penaltyPoints never decreases, and it changes only in a
\* successful returnBook of an entry of that user whose dueDate is before today.
C9_PenaltyOnlyGrowsOnLateReturn ==
    [][ \A u \in UserIndexes :
          /\ libraryUsers'[u].penaltyPoints >= libraryUsers[u].penaltyPoints
          /\ libraryUsers'[u].penaltyPoints # libraryUsers[u].penaltyPoints
             => /\ console'.outcome = "ReturnedLate"
                /\ \E i \in 1..Len(libraryUsers[u].borrowedBooks) :
                     /\ ReturnsEntry(u, i)
                     /\ today > libraryUsers[u].borrowedBooks[i].dueDate
      ]_vars

\* C9 witness: a late return has just added penalty points to a user.
C9_Witness ==
    /\ console.outcome = "ReturnedLate"
    /\ console.penalty > 0
    /\ \E u \in UserIndexes : libraryUsers[u].penaltyPoints >= console.penalty

\* C10 (as claimed): the borrowCount of the book with an id is the number of
\* successful borrowBook calls for that id so far: it is never reset, also not
\* by removeBook followed by addBook of the same id.
C10_CountIsNeverReset ==
    \A id \in CatalogIds \cap DOMAIN borrowsEver :
        BookOf(id).borrowCount = borrowsEver[id]

\* C10 (amended): while a book stays in the catalog its borrowCount grows by
\* exactly 1 in every successful borrowBook of its id and is changed by nothing
\* else; a book that addBook inserts, also under an id that was removed before,
\* starts at 0.
C10_CountGrowsWhileInCatalog ==
    [][ /\ BooksChange => \A b \in BookIndexes : \A c \in 1..Len(libraryBooks') :
             libraryBooks'[c].id = libraryBooks[b].id
             => libraryBooks'[c].borrowCount =
                   libraryBooks[b].borrowCount
                   + (IF /\ console'.outcome = "Borrowed"
                         /\ libraryBooks[b].isAvailable
                         /\ ~libraryBooks'[c].isAvailable
                      THEN 1 ELSE 0)
        /\ BooksChange => \A c \in 1..Len(libraryBooks') :
             libraryBooks'[c].id \notin CatalogIds
             => libraryBooks'[c].borrowCount = 0
        /\ \A userName \in UserNames : \A id \in BookIds :
             (console'.outcome = "Borrowed" /\ BorrowBook(userName, id))
             => BookAfterOf(id).borrowCount = BookOf(id).borrowCount + 1
      ]_vars

\* C10 witness: a book that was borrowed before is borrowed again: its
\* borrowCount is 2.
C10_Witness ==
    /\ console.outcome = "Borrowed"
    /\ \E b \in BookIndexes :
          libraryBooks[b].borrowCount = 2 /\ ~libraryBooks[b].isAvailable

\* C11: in every reachable state every entry of every user's borrowedBooks
\* names the id of a book that is in the catalog.
C11_NoDanglingEntries ==
    \A u \in UserIndexes : \A i \in 1..Len(libraryUsers[u].borrowedBooks) :
        libraryUsers[u].borrowedBooks[i].bookId \in CatalogIds

\* C11 witness: a removeBook call has just removed a book while another book
\* is still held by a user.
C11_Witness ==
    /\ console.outcome = "Removed"
    /\ \E u \in UserIndexes : libraryUsers[u].borrowedBooks # <<>>

----------------------------------------------------------------------------
(* Properties of the queries *)

\* the position of a book in the catalog
PositionOf(book) == CHOOSE b \in BookIndexes : libraryBooks[b] = book

\* a sequence of books is sorted non-increasing by a field
IsSortedDescending(books, field) ==
    \A i \in 1..(Len(books) - 1) : books[i][field] >= books[i + 1][field]

\* books of a sequence with equal values of a field are in insertion order
TiesInInsertionOrder(books, field) ==
    \A i, j \in 1..Len(books) :
        (i < j /\ books[i][field] = books[j][field])
            => PositionOf(books[i]) < PositionOf(books[j])

\* the last call was getTopRatedBooks, getMostPopularBooks
TopRatedCalled == console.outcome \in {"TopRated", "NoBooksToRate"}
MostPopularCalled == console.outcome \in {"MostPopular", "NoBooksToTrack"}

C13_NoBooksForLimitUpToZero ==
    ((TopRatedCalled \/ MostPopularCalled) /\ console.args.limit <= 0)
        => console.lines = <<>>

\* C14 (as claimed): after any sequence of borrows and returns,
\* getMostPopularBooks(limit) returns no more than limit books (none for a
\* limit that is not positive), sorted non-increasing by borrowCount, books
\* of equal borrowCount in insertion order.
C14_MostPopularSortedUpToLimit ==
    MostPopularCalled =>
        /\ Len(console.lines) <= Max(console.args.limit, 0)
        /\ IsSortedDescending(console.lines, "borrowCount")
        /\ TiesInInsertionOrder(console.lines, "borrowCount")

\* the last call was searchBooksBy and it searched (it did not reject the query)
Searched == console.outcome \in {"Found", "NoBooksFound"}

\* the books of a sequence are books of the catalog, in insertion order
InInsertionOrder(books) ==
    /\ \A i \in 1..Len(books) : \E b \in BookIndexes : libraryBooks[b] = books[i]
    /\ \A i, j \in 1..Len(books) :
          i < j => PositionOf(books[i]) < PositionOf(books[j])

\* the books of a sequence, as a set
Range(books) == { books[i] : i \in 1..Len(books) }

\* C15: searchBooksBy('rating', v) with a number v returns exactly the books
\* with rating >= v and searchBooksBy('year', v) exactly the books with
\* publicationYear >= v, both in insertion order.
C15_SearchByRatingAndYear ==
    (Searched /\ console.args.param \in {"rating", "year"}
              /\ ~IsNaN(console.args.value))
        => /\ InInsertionOrder(console.lines)
           /\ Range(console.lines) =
                { libraryBooks[b] : b \in
                    { c \in BookIndexes :
                        IF console.args.param = "rating"
                        THEN libraryBooks[c].rating >= console.args.value.tenths
                        ELSE 10 * libraryBooks[c].publicationYear
                                >= console.args.value.tenths } }

\* C15 witness: searchBooksBy('rating', 4.5) has returned some but not all books
\* of the catalog, a book rated exactly 4.5 first of them.
C15_Witness ==
    /\ console.outcome = "Found"
    /\ console.args.param = "rating"
    /\ console.args.value = Number(45)
    /\ console.lines[1].rating = 45
    /\ Len(console.lines) \in 2..(Len(libraryBooks) - 1)

\* the fields searchBooksBy knows (a field is named in any case)
SearchFields == {"author", "genre", "rating", "year"}

\* a value that is not numeric: not of type number, or NaN
IsNonNumeric(value) == value.type # "number" \/ IsNaN(value)

\* C16 (as claimed): searchBooksBy fails with InvalidQuery, returning no
\* books, for every field outside author, genre, rating and year and for
\* the field rating or year with a non-numeric value; the catalog is unchanged.
C16_InvalidQueryIsRejected ==
    [][ \A param \in SearchParams, value \in SearchValues :
          ( /\ SearchBooksBy(param, value)
            /\ \/ ToLowerCase(param) \notin SearchFields
               \/ /\ ToLowerCase(param) \in {"rating", "year"}
                  /\ IsNonNumeric(value) )
          => /\ console'.outcome = "InvalidQuery"
             /\ console'.lines = <<>>
             /\ libraryBooks' = libraryBooks
      ]_vars

\* the last call was recommendBooks for a registered user
RecommendCalled ==
    console.outcome \in {"TopRatedUnborrowed", "OtherHighlyRated", "Recommended"}

\* the ids of the books the user(s) of a name hold
HeldBy(userName) ==
    UNION { { libraryUsers[u].borrowedBooks[i].bookId :
                i \in 1..Len(libraryUsers[u].borrowedBooks) } :
            u \in UsersNamed(userName) }

\* the available books of the catalog that a set of ids does not name
AvailableBooksBut(ids) ==
    { libraryBooks[b] : b \in { c \in BookIndexes :
        libraryBooks[c].isAvailable /\ libraryBooks[c].id \notin ids } }

\* a sequence of books holds the at most 5 highest-rated books of a set, the
\* highest first
IsTopFiveOf(books, candidates) ==
    /\ Len(books) = Min(5, Cardinality(candidates))
    /\ Range(books) \subseteq candidates
    /\ IsSortedDescending(books, "rating")
    /\ \A other \in candidates \ Range(books) :
          \A i \in 1..Len(books) : other.rating <= books[i].rating

\* C17: for a registered user who holds no book, recommendBooks returns at most
\* 5 books, all of them available, sorted by rating descending: the
\* highest-rated available books.
C17_RecommendWithoutLoans ==
    (RecommendCalled /\ HeldBy(console.args.userName) = {})
        => /\ Len(console.lines) <= 5
           /\ \A i \in 1..Len(console.lines) : console.lines[i].isAvailable
           /\ IsTopFiveOf(console.lines, AvailableBooksBut({}))

\* C17 witness: recommendBooks has returned 5 books to a user who holds none,
\* while a book rated higher than the last of them is borrowed by another user.
C17_Witness ==
    /\ RecommendCalled
    /\ HeldBy(console.args.userName) = {}
    /\ Len(console.lines) = 5
    /\ \E b \in BookIndexes :
          /\ ~libraryBooks[b].isAvailable
          /\ libraryBooks[b].rating > console.lines[5].rating

\* the genres of the books the user(s) of a name hold
GenresHeldBy(userName) == { BookOf(id).genre : id \in HeldBy(userName) }

\* C18: for a registered user who holds at least one book, recommendBooks
\* returns all available books the user does not hold whose genre is the genre
\* of a held book, sorted by rating descending and not cut to 5; if there is
\* none, the at most 5 highest-rated available books the user does not hold.
\* No returned book is unavailable or held by the user.
C18_RecommendByGenre ==
    (RecommendCalled /\ HeldBy(console.args.userName) # {})
        => LET held == HeldBy(console.args.userName)
               matching == { book \in AvailableBooksBut(held) :
                               book.genre \in GenresHeldBy(console.args.userName) }
           IN  /\ IF matching # {}
                  THEN /\ Range(console.lines) = matching
                       /\ Len(console.lines) = Cardinality(matching)
                       /\ IsSortedDescending(console.lines, "rating")
                  ELSE IsTopFiveOf(console.lines, AvailableBooksBut(held))
               /\ \A i \in 1..Len(console.lines) :
                     /\ console.lines[i].isAvailable
                     /\ console.lines[i].id \notin held

\* C18 witness: recommendBooks has returned more than 5 books of a held genre
\* to a user who holds a book.
C18_Witness ==
    /\ RecommendCalled
    /\ HeldBy(console.args.userName) # {}
    /\ Len(console.lines) > 5
    /\ \A i \in 1..Len(console.lines) :
          console.lines[i].genre \in GenresHeldBy(console.args.userName)

\* the fall-back of C18 is reached: recommendBooks has returned the 5
\* highest-rated available books to a user who holds a book of a genre of
\* which no other book is in the catalog.
C18_FallBackReached ==
    /\ console.outcome = "OtherHighlyRated"
    /\ HeldBy(console.args.userName) # {}
    /\ Len(console.lines) = 5

\* a field of the book passed to addBook is missing or empty, its rating is
\* not a number or its publicationYear is missing
LacksAField(book) ==
    \/ book.id = "" \/ book.title = "" \/ book.author = "" \/ book.genre = ""
    \/ book.rating.type # "number"
    \/ book.publicationYear.type = "undefined"

\* C19 (as claimed): addBook fails with ValidationError, inserting nothing,
\* whenever id, title, author or genre is missing or empty, rating is not a
\* number or publicationYear is missing; when all six fields are present, the
\* rating a number and the id new, addBook succeeds.
C19_AddBookValidation ==
    [][ \A book \in QueryCandidates :
          AddBook(book) =>
            IF LacksAField(book)
            THEN /\ console'.outcome = "ValidationError"
                 /\ libraryBooks' = libraryBooks
            ELSE book.id \notin CatalogIds
                    => /\ console'.outcome = "Added"
                       /\ Len(libraryBooks') = Len(libraryBooks) + 1
                       /\ book.id \in CatalogIdsAfter
      ]_vars

\* no user's borrowedBooks holds two entries for one book id
NoDuplicateEntries ==
    \A u \in UserIndexes : \A i, j \in 1..Len(libraryUsers[u].borrowedBooks) :
        libraryUsers[u].borrowedBooks[i].bookId
            = libraryUsers[u].borrowedBooks[j].bookId => i = j

\* C20: borrowBook never ends with AlreadyBorrowed: whenever the calling user
\* already holds the book, the book is unavailable and the call fails with
\* BookUnavailable; and no user's borrowedBooks ever holds two entries for one
\* book id.
C20_NeverAlreadyBorrowed ==
    /\ []NoDuplicateEntries
    /\ [][ /\ console'.outcome # "AlreadyBorrowed"
           /\ \A userName \in UserNames, bookId \in BookIds :
                 (bookId \in HeldBy(userName) /\ BorrowBook(userName, bookId))
                    => /\ ~BookOf(bookId).isAvailable
                       /\ console'.outcome = "BookUnavailable"
         ]_vars

\* C20 witness: a borrowBook call has just failed with BookUnavailable while
\* every unavailable book is held by John Doe and by nobody else, and John
\* Doe holds each book once.
C20_Witness ==
    /\ console.outcome = "BookUnavailable"
    /\ libraryUsers[1].borrowedBooks # <<>>
    /\ \A u \in UserIndexes \ {1} : libraryUsers[u].borrowedBooks = <<>>
    /\ NoDuplicateEntries

\* this step is a query: searchBooksBy, getTopRatedBooks, getMostPopularBooks,
\* recommendBooks and printUserSummary print their arguments, and
\* checkOverdueUsers, listAllBooks and listAllUsers lines of their own
IsQueryStep ==
    \/ console'.args # NoArgs
    \/ console'.outcome \in {"NoOverdueBooks", "OverdueBooks", "LibraryEmpty",
                             "AllBooks", "NoUsers", "AllUsers"}

\* C21: searchBooksBy, getTopRatedBooks, getMostPopularBooks, checkOverdueUsers,
\* recommendBooks, printUserSummary, listAllBooks and listAllUsers leave the
\* catalog unchanged: the book array keeps its contents and its order, and no
\* user's borrowedBooks or penaltyPoints changes.
C21_QueriesChangeNothing ==
    [][ IsQueryStep =>
          /\ libraryBooks' = libraryBooks
          /\ Len(libraryUsers') = Len(libraryUsers)
          /\ \A u \in UserIndexes :
                /\ libraryUsers'[u].borrowedBooks = libraryUsers[u].borrowedBooks
                /\ libraryUsers'[u].penaltyPoints = libraryUsers[u].penaltyPoints
      ]_vars

\* C21 witness: getTopRatedBooks has returned books in another order than the
\* catalog's, while a user holds a book.
C21_Witness ==
    /\ TopRatedCalled
    /\ Len(console.lines) >= 2
    /\ PositionOf(console.lines[1]) > PositionOf(console.lines[2])
    /\ \E u \in UserIndexes : libraryUsers[u].borrowedBooks # <<>>

\* C22: with the users of initializeLibraryData, no sequence of command lines
\* makes a borrow succeed: every book stays available, every borrowCount stays
\* 0 and every penaltyPoints stays 0.
C22_NoBorrowFromTheCommandLine ==
    /\ console.outcome # "Borrowed"
    /\ \A b \in BookIndexes :
          libraryBooks[b].isAvailable /\ libraryBooks[b].borrowCount = 0
    /\ \A u \in UserIndexes :
          libraryUsers[u].penaltyPoints = 0 /\ libraryUsers[u].borrowedBooks = <<>>

\* C22 witness: a borrowBook or returnBook line with two arguments has just
\* been dispatched and has failed to find its user, after a removeBook line
\* has removed a book.
C22_Witness ==
    /\ console.outcome = "UserNotFound"
    /\ console.args = NoArgs
    /\ Len(libraryBooks) < Len(InitialBooks)

----------------------------------------------------------------------------
(* Part 2: Hangman (src/Hangman/Hangman.js)                                *)
(*                                                                         *)
(* The page's state is the record hangman: the globals of the script under *)
(* their names, and                                                        *)
(*   timeouts   the number of setTimeout(playGame, 1000) callbacks pending *)
(*              (they are all alike; each fires once, at any later time);  *)
(*   alerts     the alert() texts of the last handler, in order;           *)
(*   thrown     the error that ended the last handler, "none" if none;     *)
(*   counted    history: win and lose popups since the last word selection *)
(*   selections history: the words selected since wordsRemaining was       *)
(*              last filled.                                               *)
(* A handler runs to completion before the next one starts (one thread).   *)
(* guessedLetters is held as the set of its elements: the script only      *)
(* pushes to the array and asks includes() of it.                          *)

\* the game is played with the first MaxWords words of wordList
MaxWords == 2

\* no more than MaxCount start clicks, popups and pending timeouts at a time
MaxCount == 2

\* let remainingAttempts = 6
FullAttempts == 6

wordList ==
    <<"Cat", "Sun", "Apple", "Bicycle", "Elephant", "Castle", "Cobweb",
      "Subway", "Strength">>

\* [...wordList]
WordsInPlay == SubSeq(wordList, 1, Min(MaxWords, Len(wordList)))

\* String.prototype.toUpperCase, on the words of wordList and on letters
ToUpperCase(s) ==
    CASE s = "Cat"      -> "CAT"
      [] s = "Sun"      -> "SUN"
      [] s = "Apple"    -> "APPLE"
      [] s = "Bicycle"  -> "BICYCLE"
      [] s = "Elephant" -> "ELEPHANT"
      [] s = "Castle"   -> "CASTLE"
      [] s = "Cobweb"   -> "COBWEB"
      [] s = "Subway"   -> "SUBWAY"
      [] s = "Strength" -> "STRENGTH"
      [] OTHER          -> s

\* String.prototype.split(''): the characters of the strings selectedWord takes
Characters(word) ==
    CASE word = ""         -> <<>>
      [] word = "CAT"      -> <<"C", "A", "T">>
      [] word = "SUN"      -> <<"S", "U", "N">>
      [] word = "APPLE"    -> <<"A", "P", "P", "L", "E">>
      [] word = "BICYCLE"  -> <<"B", "I", "C", "Y", "C", "L", "E">>
      [] word = "ELEPHANT" -> <<"E", "L", "E", "P", "H", "A", "N", "T">>
      [] word = "CASTLE"   -> <<"C", "A", "S", "T", "L", "E">>
      [] word = "COBWEB"   -> <<"C", "O", "B", "W", "E", "B">>
      [] word = "SUBWAY"   -> <<"S", "U", "B", "W", "A", "Y">>
      [] word = "STRENGTH" -> <<"S", "T", "R", "E", "N", "G", "T", "H">>

\* the letter buttons that are clicked: the letters of CAT and seven others
LetterButtons == {"C", "A", "T", "D", "E", "F", "G", "H", "I", "J"}

\* string.includes(letter), for a one-character letter
WordIncludes(word, letter) ==
    \E i \in 1..Len(Characters(word)) : Characters(word)[i] = letter

HangmanLoaded ==
    [gameCount |-> 0, winsCount |-> 0, lossesCount |-> 0,
     selectedWord |-> "", wordLength |-> 0, guessedLetters |-> {},
     remainingAttempts |-> FullAttempts, lastSelectedWord |-> "",
     wordsRemaining |-> WordsInPlay,
     timeouts |-> 0, alerts |-> <<>>, thrown |-> "none",
     counted |-> 0, selections |-> {}]

\* a handler starts: nothing alerted or thrown yet
Handling(h) == [h EXCEPT !.alerts = <<>>, !.thrown = "none"]

\* the values randomIndex can have when the do-while loop of getRandomWord
\* ends: the indexes (1-based) of the words other than lastSelectedWord
RandomIndexes(h) ==
    { i \in 1..Len(h.wordsRemaining) :
        ToUpperCase(h.wordsRemaining[i]) # h.lastSelectedWord }

\* getRandomWord never returns: every word left is lastSelectedWord
LoopsForever(h) == h.wordsRemaining # <<>> /\ RandomIndexes(h) = {}

\* the choices of Math.random a call of getRandomWord can make
RandomChoices(h) == IF RandomIndexes(h) = {} THEN {0} ELSE RandomIndexes(h)

\* the state after getRandomWord(); it returns undefined when
\* wordsRemaining is empty
GetRandomWord(h, randomIndex) ==
    IF h.wordsRemaining = <<>>
    THEN [h EXCEPT !.alerts = Append(@, "Congratulations")]
    ELSE IF LoopsForever(h) THEN [h EXCEPT !.thrown = "never returns"]
    ELSE LET word == ToUpperCase(h.wordsRemaining[randomIndex])
         IN  [h EXCEPT !.wordLength = Len(Characters(word)),
                       !.selectedWord = word,
                       !.lastSelectedWord = word,
                       !.wordsRemaining = Splice1(@, randomIndex),
                       !.counted = 0,
                       !.selections = @ \cup {word}]

\* initializeGame: destructuring the undefined that getRandomWord returns
\* throws a TypeError before anything is reset
InitializeGame(h, randomIndex) ==
    LET selected == GetRandomWord(h, randomIndex)
    IN  IF LoopsForever(h) THEN selected
        ELSE IF h.wordsRemaining = <<>>
        THEN [selected EXCEPT !.thrown = "TypeError"]
        ELSE [selected EXCEPT !.guessedLetters = {},
                              !.remainingAttempts = FullAttempts]

PlayGame(h, randomIndex) == InitializeGame(h, randomIndex)

ShowWinPopup(h) ==
    [h EXCEPT !.alerts = Append(@, "You win!"),
              !.winsCount = @ + 1,
              !.counted = @ + 1]

ShowLosePopup(h) ==
    [h EXCEPT !.alerts = Append(@, "You lose!"),
              !.lossesCount = @ + 1,
              !.counted = @ + 1]

\* updateHealthDisplay, called with the global remainingAttempts
UpdateHealthDisplay(h) ==
    IF h.remainingAttempts = 0
    THEN [ShowLosePopup(h) EXCEPT !.timeouts = @ + 1]
    ELSE h

UpdateDisplayWithGuess(word, guessedLetters) ==
    [i \in 1..Len(Characters(word)) |->
        IF ToUpperCase(Characters(word)[i]) \in guessedLetters
        THEN Characters(word)[i] ELSE "_"]

\* the state after handleLetterClick(letter)
HandleLetterClick(h, letter) ==
    LET isLetterInWord == WordIncludes(h.selectedWord, letter)
        pushed == [h EXCEPT !.guessedLetters = @ \cup {ToUpperCase(letter)}]
        missed == IF ~isLetterInWord
                  THEN UpdateHealthDisplay(
                           [pushed EXCEPT !.remainingAttempts = @ - 1])
                  ELSE pushed
        updatedDisplay ==
            UpdateDisplayWithGuess(missed.selectedWord, missed.guessedLetters)
    IN  IF ToUpperCase(letter) \in h.guessedLetters THEN h
        ELSE IF \A i \in 1..Len(updatedDisplay) : updatedDisplay[i] # "_"
        THEN [ShowWinPopup(missed) EXCEPT !.timeouts = @ + 1]
        ELSE missed

\* the outcomes of the call updateLocalStorageCounters() in restartGame: the
\* script defines no such function, so the call throws a ReferenceError
\* unless another script of the page defines it
LocalStorageCalls == {"ReferenceError", "returns"}

\* the state after restartGame()
RestartGame(h, call, randomIndex) ==
    LET zeroed == [h EXCEPT !.gameCount = 0, !.winsCount = 0, !.lossesCount = 0]
        reset == [zeroed EXCEPT !.selectedWord = "",
                                !.wordLength = 0,
                                !.guessedLetters = {},
                                !.remainingAttempts = FullAttempts,
                                !.lastSelectedWord = "",
                                !.wordsRemaining = WordsInPlay,
                                !.selections = {}]
    IN  IF call = "ReferenceError"
        THEN [zeroed EXCEPT !.thrown = "ReferenceError"]
        ELSE InitializeGame(reset, randomIndex)

\* the counters and the pending timeouts stay within MaxCount
WithinCount(h) ==
    /\ h.gameCount <= MaxCount
    /\ h.winsCount + h.lossesCount <= MaxCount
    /\ h.timeouts <= MaxCount

\* a click on .js-start: its two listeners run in turn, playGame and the
\* one that counts the game (it runs even when the first one threw)
StartClick ==
    \E randomIndex \in RandomChoices(hangman) :
        LET played == PlayGame(Handling(hangman), randomIndex)
        IN  /\ hangman' = [played EXCEPT !.gameCount = @ + 1]
            /\ WithinCount(hangman')
            /\ UNCHANGED <<libraryVars, scramble, calculator>>

\* a click on .js-restart
RestartClick ==
    \E call \in LocalStorageCalls, randomIndex \in 1..Len(WordsInPlay) :
        /\ hangman' = RestartGame(Handling(hangman), call, randomIndex)
        /\ UNCHANGED <<libraryVars, scramble, calculator>>

\* a click on a letter button
LetterClick(letter) ==
    /\ hangman' = HandleLetterClick(Handling(hangman), letter)
    /\ WithinCount(hangman')
    /\ UNCHANGED <<libraryVars, scramble, calculator>>

\* a pending timeout fires: () => { playGame(); }
Timeout ==
    /\ hangman.timeouts > 0
    /\ \E randomIndex \in RandomChoices(hangman) :
          hangman' = PlayGame([Handling(hangman) EXCEPT !.timeouts = @ - 1],
                              randomIndex)
    /\ UNCHANGED <<libraryVars, scramble, calculator>>

\* no library is running next to a page
NoLibrary ==
    /\ libraryBooks = <<>>
    /\ libraryUsers = <<>>
    /\ today = 0
    /\ tzShift = 0
    /\ console = NotLoaded
    /\ borrowsEver = <<>>

HangmanInit ==
    /\ hangman = HangmanLoaded
    /\ scramble = NotLoaded
    /\ calculator = NotLoaded
    /\ NoLibrary

HangmanNext ==
    \/ StartClick
    \/ RestartClick
    \/ \E letter \in LetterButtons : LetterClick(letter)
    \/ Timeout

HangmanSpec == HangmanInit /\ [][HangmanNext]_vars

----------------------------------------------------------------------------
(* Properties of Hangman *)

\* C23: under any interleaving of start and restart clicks, letter clicks
\* and restart timeouts, remainingAttempts is within 0..6 in every state
C23_AttemptsWithinZeroToSix ==
    hangman.remainingAttempts \in 0..FullAttempts

\* every letter of the selected word is guessed
AllLettersGuessed(h) ==
    \A i \in 1..Len(Characters(h.selectedWord)) :
        Characters(h.selectedWord)[i] \in h.guessedLetters

\* C24: a selected word is counted at most once (between two word
\* selections winsCount + lossesCount grows by at most 1), and winsCount
\* grows only when a non-empty selected word has all its letters guessed
C24_EachWordCountedOnce ==
    /\ [](hangman.counted <= 1)
    /\ [][ hangman'.winsCount > hangman.winsCount =>
             /\ hangman'.selectedWord # ""
             /\ AllLettersGuessed(hangman')
         ]_vars

\* a handler that starts a round has run: a start click or a timeout
RoundStarted ==
    \/ hangman'.gameCount = hangman.gameCount + 1
    \/ hangman'.timeouts = hangman.timeouts - 1

\* getRandomWord returns whenever it is called
C25_GetRandomWordTerminates == hangman.thrown # "never returns"

\* no word that can still be selected was selected since wordsRemaining was
\* filled, and wordsRemaining has lost one word for each selection
C25_NoWordSelectedTwice ==
    /\ \A i \in 1..Len(hangman.wordsRemaining) :
          ToUpperCase(hangman.wordsRemaining[i]) \notin hangman.selections
    /\ Len(hangman.wordsRemaining) + Cardinality(hangman.selections)
          = Len(WordsInPlay)

\* C25: getRandomWord always terminates and selects no word twice between
\* restarts (wordsRemaining shrinks by one per selection), and starting a
\* round when wordsRemaining is empty shows the congratulations popup and
\* ends without an error in initializeGame
C25_SelectionAndExhaustion ==
    /\ [](C25_GetRandomWordTerminates /\ C25_NoWordSelectedTwice)
    /\ [][ RoundStarted /\ hangman.wordsRemaining = <<>> =>
             /\ hangman'.alerts = <<"Congratulations">>
             /\ hangman'.thrown = "none"
         ]_vars

\* the parts of C24 and C25 taken alone
C24_WinOnlyForGuessedWord ==
    [][ hangman'.winsCount > hangman.winsCount =>
          hangman'.selectedWord # "" /\ AllLettersGuessed(hangman') ]_vars
C25_CongratulationsWhenExhausted ==
    [][ RoundStarted /\ hangman.wordsRemaining = <<>> =>
          hangman'.alerts = <<"Congratulations">> ]_vars

----------------------------------------------------------------------------
(* Part 3: the word scramble (src/unnamed/part_001)                        *)
(*                                                                         *)
(* The page's state is the record scramble: the globals currentWord,       *)
(* scrambledWord and timerInterval (0 is undefined), and                   *)
(*   intervals    the active setInterval timers, by id, each with the      *)
(*                timeLeft of the startTimer call that set it;             *)
(*   intervalsSet the number of setInterval calls so far (ids are 1, 2, ..)*)
(*   timerText    the number shown in timerElement.textContent;            *)
(*   inputValue   inputElement.value, as the runs of characters typed;     *)
(*   alerts       the alert() texts of the last handler, in order;         *)
(*   timeUps      history: 'Time is up!' alerts since the last startGame.  *)

\* no more than MaxRounds calls of startGame
MaxRounds == 3

\* scrambleWord is explored for the rotations of the word by 0 .. MaxShift
MaxShift == 1

\* let timeLeft = 60
RoundSeconds == 60

words ==
    <<"garden", "country", "library", "scramble", "sunshine", "chocolate",
      "bicycle", "pancake">>

\* String.prototype.split(''), on the words of the game
SplitLetters(word) ==
    CASE word = "garden"    -> <<"g", "a", "r", "d", "e", "n">>
      [] word = "country"   -> <<"c", "o", "u", "n", "t", "r", "y">>
      [] word = "library"   -> <<"l", "i", "b", "r", "a", "r", "y">>
      [] word = "scramble"  -> <<"s", "c", "r", "a", "m", "b", "l", "e">>
      [] word = "sunshine"  -> <<"s", "u", "n", "s", "h", "i", "n", "e">>
      [] word = "chocolate" -> <<"c", "h", "o", "c", "o", "l", "a", "t", "e">>
      [] word = "bicycle"   -> <<"b", "i", "c", "y", "c", "l", "e">>
      [] word = "pancake"   -> <<"p", "a", "n", "c", "a", "k", "e">>

RECURSIVE JoinLetters(_)
\* Array.prototype.join('')
JoinLetters(letters) ==
    IF letters = <<>> THEN "" ELSE Head(letters) \o JoinLetters(Tail(letters))

\* scrambleWord: sort with a random comparator leaves some permutation of
\* the letters; the permutations explored are the rotations by shift
ScrambleWord(word, shift) ==
    LET letters == SplitLetters(word)
        n == Len(letters)
    IN  JoinLetters([i \in 1..n |-> letters[((i - 1 + shift) % n) + 1]])

\* what is typed into the input: nothing, a wrong word, a word of the game
\* as it is, and one in capitals between blanks
TypedValues ==
    {<<>>, <<"pancakes">>, <<" ", "GARDEN", "\t">>}
        \cup { <<words[i]>> : i \in 1..Len(words) }

\* String.prototype.toLowerCase, on what is typed
TypedToLowerCase(s) == IF s = "GARDEN" THEN "garden" ELSE s

\* inputElement.value.trim().toLowerCase(), for a value of one word at most
TrimmedLowerCase(value) ==
    IF Trim(value) = <<>> THEN "" ELSE TypedToLowerCase(Join(Trim(value)))

ScrambleLoaded ==
    [currentWord |-> "", scrambledWord |-> "", timerInterval |-> 0,
     intervals |-> <<>>, intervalsSet |-> 0, timerText |-> 0,
     inputValue |-> <<>>, alerts |-> <<>>, timeUps |-> 0]

\* clearInterval(id): the timer stops if it is active
ClearInterval(intervals, id) ==
    [i \in DOMAIN intervals \ {id} |-> intervals[i]]

SelectRandomWord(h, randomIndex, shift) ==
    [h EXCEPT !.currentWord = words[randomIndex],
              !.scrambledWord = ScrambleWord(words[randomIndex], shift)]

\* startTimer: a new interval, with its own timeLeft, becomes timerInterval
StartTimer(h) ==
    LET id == h.intervalsSet + 1
    IN  [h EXCEPT !.timerText = RoundSeconds,
                  !.intervals = [i \in DOMAIN @ \cup {id} |->
                                    IF i = id THEN RoundSeconds ELSE @[i]],
                  !.timerInterval = id,
                  !.intervalsSet = id]

\* stopTimer without the clearInterval
StopTimer_LeavesInterval(h) == h

StopTimer(h) ==
    [h EXCEPT !.intervals = ClearInterval(@, h.timerInterval)]

StartGame(h, randomIndex, shift) ==
    [StartTimer(SelectRandomWord(h, randomIndex, shift))
        EXCEPT !.inputValue = <<>>, !.timeUps = 0]

\* checkWord
CheckWord(h, randomIndex, shift) ==
    IF TrimmedLowerCase(h.inputValue) = h.currentWord
    THEN StartGame(StopTimer([h EXCEPT !.alerts = Append(@, "Correct")]),
                   randomIndex, shift)
    ELSE [h EXCEPT !.alerts = Append(@, "Incorrect")]

\* the callback of the interval id
IntervalCallback(h, id) ==
    LET timeLeft == h.intervals[id] - 1
        ticked == [h EXCEPT !.intervals[id] = timeLeft, !.timerText = timeLeft]
    IN  IF timeLeft = 0
        THEN [ticked EXCEPT
                !.intervals = ClearInterval(@, h.timerInterval),
                !.alerts = Append(@, "Time is up!"),
                !.timeUps = @ + 1]
        ELSE ticked

RandomWordIndexes == 1..Len(words)
Shifts == 0..MaxShift

\* the user types into the input field
Type(value) ==
    /\ scramble' = [scramble EXCEPT !.inputValue = value, !.alerts = <<>>]
    /\ UNCHANGED <<libraryVars, hangman, calculator>>

\* a click on the refresh button
RefreshClick ==
    /\ scramble.intervalsSet < MaxRounds
    /\ \E randomIndex \in RandomWordIndexes, shift \in Shifts :
          scramble' = StartGame(StopTimer([scramble EXCEPT !.alerts = <<>>]),
                                randomIndex, shift)
    /\ UNCHANGED <<libraryVars, hangman, calculator>>

\* a click on the check button
CheckClick ==
    /\ \/ scramble.intervalsSet < MaxRounds
       \/ TrimmedLowerCase(scramble.inputValue) # scramble.currentWord
    /\ \E randomIndex \in RandomWordIndexes, shift \in Shifts :
          scramble' = CheckWord([scramble EXCEPT !.alerts = <<>>],
                                randomIndex, shift)
    /\ UNCHANGED <<libraryVars, hangman, calculator>>

\* a second has passed for an active interval
Tick ==
    /\ \E id \in DOMAIN scramble.intervals :
          scramble' = IntervalCallback([scramble EXCEPT !.alerts = <<>>], id)
    /\ UNCHANGED <<libraryVars, hangman, calculator>>

\* the script has run: it ends with startGame()
ScrambleInit ==
    /\ \E randomIndex \in RandomWordIndexes, shift \in Shifts :
          scramble = StartGame(ScrambleLoaded, randomIndex, shift)
    /\ hangman = NotLoaded
    /\ calculator = NotLoaded
    /\ NoLibrary

ScrambleNext ==
    \/ \E value \in TypedValues : Type(value)
    \/ RefreshClick
    \/ CheckClick
    \/ Tick

ScrambleSpec == ScrambleInit /\ [][ScrambleNext]_vars

----------------------------------------------------------------------------
(* Properties of the word scramble *)

\* an interval callback has run: the text changed and no round started
TickStep ==
    /\ scramble'.intervalsSet = scramble.intervalsSet
    /\ scramble'.timerText # scramble.timerText

\* C26: under any interleaving of refresh clicks, check clicks and timer
\* ticks at most one countdown interval is active, so the time left goes
\* down by exactly 1 per tick, never below 0, and 'Time is up!' is raised
\* at most once per started round
C26_OneCountdownAtATime ==
    /\ [](/\ Cardinality(DOMAIN scramble.intervals) <= 1
          /\ \A id \in DOMAIN scramble.intervals :
                /\ id = scramble.timerInterval
                /\ scramble.intervals[id] = scramble.timerText
                /\ scramble.intervals[id] > 0
          /\ scramble.timerText >= 0
          /\ scramble.timeUps <= 1)
    /\ [][ TickStep => scramble'.timerText = scramble.timerText - 1 ]_vars

\* a round started by a click has run out of time, another by a right guess
C26_Witness ==
    /\ scramble.intervalsSet = 3
    /\ scramble.timeUps = 1
    /\ scramble.timerText = 0
    /\ scramble.intervals = <<>>
    /\ scramble.alerts = <<"Time is up!">>

----------------------------------------------------------------------------
(* Part 4: the calculator (src/unnamed/part_000)                           *)
(*                                                                         *)
(* The page's state is the record calculator:                              *)
(*   calculation the global string, as the sequence of its characters;     *)
(*   innerHTML   what displayCalculation wrote to .js-calculation;         *)
(*   stored      the item 'calculation' of localStorage;                   *)
(*   replaced    history: the last call replaced a trailing symbol.        *)

\* the calculation is not made longer than MaxLength characters
MaxLength == 4

\* the single characters the buttons pass to updateCalculation
Values == {"1", "2", ".", "+", "-", "*", "/"}

\* isSymbol without the minus sign
IsSymbol_NoMinus(value) == value \in {"+", "*", "/"}

\* isSymbol(value), for a string given as its characters or as a character
IsSymbol(value) == value \in {"+", "-", "*", "/"}

\* calculation.slice(-1): the last character, '' for the empty string
SliceLast(string) == IF string = <<>> THEN "" ELSE string[Len(string)]

\* calculation.slice(0, -1): the string without its last character
SliceButLast(string) ==
    IF string = <<>> THEN <<>> ELSE SubSeq(string, 1, Len(string) - 1)

\* displayCalculation(); localStorage.setItem('calculation', calculation)
DisplayedAndStored(c) ==
    [c EXCEPT !.innerHTML = c.calculation, !.stored = c.calculation]

\* updateCalculation(value)
UpdateCalculation(value) ==
    /\ calculator' = DisplayedAndStored(
          IF IsSymbol(value) /\ IsSymbol(SliceLast(calculator.calculation))
          THEN [calculator EXCEPT
                  !.calculation = Append(SliceButLast(@), value),
                  !.replaced = TRUE]
          ELSE [calculator EXCEPT
                  !.calculation = Append(@, value),
                  !.replaced = FALSE])
    /\ Len(calculator'.calculation) <= MaxLength
    /\ UNCHANGED <<libraryVars, hangman, scramble>>

\* deleteLastCharacter()
DeleteLastCharacter ==
    /\ calculator' = DisplayedAndStored(
          [calculator EXCEPT !.calculation = SliceButLast(@),
                             !.replaced = FALSE])
    /\ UNCHANGED <<libraryVars, hangman, scramble>>

\* the script has run with no item 'calculation' in localStorage
CalculatorInit ==
    /\ calculator = [calculation |-> <<>>, innerHTML |-> <<>>,
                     stored |-> <<>>, replaced |-> FALSE]
    /\ hangman = NotLoaded
    /\ scramble = NotLoaded
    /\ NoLibrary

CalculatorNext ==
    \/ \E value \in Values : UpdateCalculation(value)
    \/ DeleteLastCharacter

CalculatorSpec == CalculatorInit /\ [][CalculatorNext]_vars

----------------------------------------------------------------------------
(* Properties of the calculator *)

OperatorSymbols == {"+", "-", "*", "/"}

NoAdjacentOperators(string) ==
    \A i \in 1..(Len(string) - 1) :
        ~(string[i] \in OperatorSymbols /\ string[i + 1] \in OperatorSymbols)

\* a call of updateCalculation with an operator symbol, made on a
\* calculation that ends with one
OperatorAfterOperator ==
    /\ calculator.calculation # <<>>
    /\ SliceLast(calculator.calculation) \in OperatorSymbols
    /\ Len(calculator'.calculation) >= Len(calculator.calculation)
    /\ SliceLast(calculator'.calculation) \in OperatorSymbols

\* C27: from an empty calculation, after any sequence of updateCalculation
\* calls with single characters and deleteLastCharacter calls, no two
\* operator symbols of + - * / are adjacent in the calculation: an operator
\* entered right after an operator replaces it
C27_NoAdjacentOperators ==
    /\ [](/\ NoAdjacentOperators(calculator.calculation)
          /\ calculator.innerHTML = calculator.calculation
          /\ calculator.stored = calculator.calculation)
    /\ [][ OperatorAfterOperator =>
             /\ Len(calculator'.calculation) = Len(calculator.calculation)
             /\ SliceButLast(calculator'.calculation)
                   = SliceButLast(calculator.calculation)
         ]_vars

\* a minus was entered right after another operator and took its place
C27_Witness ==
    /\ calculator.replaced
    /\ calculator.calculation = <<"1", "*", "2", "-">>

====
